---- MODULE Spec2Model ----
\* A model of the interactive React tutorial: the TutorialContainer shell and
\* the example panels it mounts.  Every example's hooks are one record-valued
\* variable whose fields carry the names of the useState/useReducer values.
\* React's commit is modelled in two steps, as React performs it: a handler
\* sets state and the component re-renders (one action), then the passive
\* effects whose dependencies changed run (FlushPassiveEffects).  React flushes
\* the passive effects of a discrete event before it handles anything else, so
\* every other action waits for passive = {}.
EXTENDS Integers, Sequences, FiniteSets, TLC

\* ---------------------------------------------------------------- bounds
MaxCount == 2
MaxReducerCount == 1
MaxTimerCount == 1
MaxPending == 2
MaxClock == 2
MaxReducerInput == 15

\* ------------------------------------------------------ TutorialContainer
examples ==
  << [id |-> 1,  component |-> "BasicComponent"],
     [id |-> 2,  component |-> "PropsExample"],
     [id |-> 3,  component |-> "StateExample"],
     [id |-> 4,  component |-> "EventHandlingExample"],
     [id |-> 5,  component |-> "EffectsExample"],
     [id |-> 6,  component |-> "ConditionalRenderingExample"],
     [id |-> 7,  component |-> "ListRenderingExample"],
     [id |-> 8,  component |-> "FormHandlingExample"],
     [id |-> 9,  component |-> "ContextExample"],
     [id |-> 10, component |-> "ReactNativeComparison"] >>

\* examples[i].component with JavaScript's 0-based index; an index outside the
\* array has no component (the render would throw).
ComponentAt(i) ==
  IF i \in 0..(Len(examples) - 1) THEN examples[i + 1].component ELSE "undefined"

\* JavaScript's null: of an object-valued hook, and of a string-valued one.
null == [null |-> TRUE]
nullStr == "null"

VARIABLES
  currentExampleIndex,  \* TutorialContainer: useState(0)
  CurrentExample,       \* the component rendered in the panel
  stateExample,         \* StateExample hooks
  eventExample,         \* EventHandlingExample hooks
  effectsExample,       \* EffectsExample hooks
  conditionalExample,   \* ConditionalRenderingExample hooks
  listExample,          \* ListRenderingExample hooks
  tbody,                \* the table rows ListRenderingExample rendered last
  formExample,          \* FormHandlingExample hooks
  contextExample,       \* ContextExample: ThemeProvider, UserProvider, LoginForm hooks
  nativeExample,        \* ReactNativeComparison hooks
  timerId,              \* closure variable of the live timer effect, 0 = undefined
  activeIntervals,      \* ids of the window's intervals that are not cleared
  pendingFetches,       \* fetchUser calls waiting at their setTimeout, oldest first
  passive,              \* passive effects scheduled by the last commit
  lastAction            \* the handler or callback that ran last (see Did)

shell == << currentExampleIndex, CurrentExample >>
browser == << timerId, activeIntervals, pendingFetches, passive >>

vars == << shell, stateExample, eventExample, effectsExample, conditionalExample,
           listExample, tbody, formExample, contextExample, nativeExample,
           browser, lastAction >>

\* ------------------------------------------------------------------ strings
\* A string is the sequence of its characters, so that trim, length and the
\* regular expression work on it as they do in JavaScript.
Whitespace == {" ", "\t", "\n"}

RECURSIVE TrimStart(_)
TrimStart(s) ==
  IF s # << >> /\ Head(s) \in Whitespace THEN TrimStart(Tail(s)) ELSE s

RECURSIVE TrimEnd(_)
TrimEnd(s) ==
  IF s # << >> /\ s[Len(s)] \in Whitespace
    THEN TrimEnd(SubSeq(s, 1, Len(s) - 1))
    ELSE s

\* String.prototype.trim
\* A trim that removes nothing.
TrimNothing(s) == s

Trim(s) == TrimEnd(TrimStart(s))

\* A string as a condition: the empty string is falsy.
Truthy(s) == s # << >>

\* ------------------------------------------------------------ initial hooks
StateExampleInit == [count |-> 0]

EffectsExampleInit ==
  [ count        |-> 0,
    isRunning    |-> FALSE,
    userData     |-> null,
    userId       |-> 1,
    isLoading    |-> FALSE,
    error        |-> nullStr,
    theme        |-> "light",
    counterState |-> [count |-> 0] ]

\* ------------------------------------------------------------ EffectsExample
\* A reducer whose default case resets the counter.
counterReducerResetByDefault(state, action) ==
  CASE action.type = "increment" -> [count |-> state.count + 1]
    [] action.type = "decrement" -> [count |-> state.count - 1]
    [] OTHER                     -> [count |-> 0]

counterReducer(state, action) ==
  CASE action.type = "increment" -> [count |-> state.count + 1]
    [] action.type = "decrement" -> [count |-> state.count - 1]
    [] action.type = "reset"     -> [count |-> 0]
    [] OTHER                     -> state

mockUsers ==
  << [id |-> 1, name |-> "John Doe"],
     [id |-> 2, name |-> "Jane Smith"],
     [id |-> 4, name |-> "Bob Johnson"],
     [id |-> 5, name |-> "Alice Williams"] >>

UserIdButtons == <<1, 2, 3, 4, 5>>

\* Array.prototype.find: the first element that satisfies the test, or undefined.
FindUser(users, id) ==
  LET hits == { i \in 1..Len(users) : users[i].id = id }
  IN  IF hits = {} THEN null
      ELSE users[CHOOSE i \in hits : \A j \in hits : i <= j]

\* window.setInterval returns a positive id that no live interval carries.
NewTimerId(intervals) ==
  CHOOSE n \in 1..(Cardinality(intervals) + 1) : n \notin intervals

\* A cleanup that leaves the interval running.
TimerCleanupKeepingInterval(intervals, id) == intervals

\* The timer effect's cleanup: clearInterval(timerId) when timerId is set.
TimerCleanup(intervals, id) ==
  IF id # 0 THEN intervals \ {id} ELSE intervals

\* The timer effect's body: an interval is set up only when isRunning; the
\* result is the closure's timerId (0 = undefined).
TimerSetup(intervals, isRunning) ==
  IF isRunning THEN NewTimerId(intervals) ELSE 0

\* The fetch effect's cleanup only logs; the model records that it ran.
FetchCleanup(fetches) ==
  [ i \in 1..Len(fetches) |-> [fetches[i] EXCEPT !.cleanedUp = TRUE] ]

\* A fetchUser that starts without clearing the error of the call before.
FetchStartKeepingError(e) == [e EXCEPT !.isLoading = TRUE]

\* fetchUser up to its await: two state writes and a timeout in flight.
FetchStart(e) == [e EXCEPT !.isLoading = TRUE, !.error = nullStr]

\* A fetchUser call awaiting its timeout: the userId its closure captured,
\* whether the cleanup of its effect has run, and whether another call was
\* already awaiting its timeout when this one started.
NewFetch(uid, fetches) ==
  [userId |-> uid, cleanedUp |-> FALSE, overlapped |-> fetches # << >>]

\* A fetchUser whose error path leaves isLoading as it is.
FetchResultWithoutFinally(e, uid) ==
  LET user == FindUser(mockUsers, uid)
  IN  IF uid = 3 \/ user = null
        THEN [e EXCEPT !.error = "User not found", !.userData = null]
        ELSE [e EXCEPT !.userData = user, !.isLoading = FALSE]

\* What fetchUser writes once its timeout has resolved, for the userId its
\* closure captured.
FetchResult(e, uid) ==
  LET user == FindUser(mockUsers, uid)
  IN  IF uid = 3 \/ user = null
        THEN [e EXCEPT !.error = "User not found", !.userData = null,
                       !.isLoading = FALSE]
        ELSE [e EXCEPT !.userData = user, !.isLoading = FALSE]

\* ------------------------------------------------------ EventHandlingExample
EventExampleInit ==
  [ message  |-> [text |-> "No event fired yet"],
    position |-> [x |-> 0, y |-> 0],
    formData |-> [name |-> << >>, email |-> << >>] ]

\* The values typed into the name and email inputs, and the mouse coordinates.
EventInputs == { << >>, <<"a">> }
Coordinates == {0, 1}

\* ----------------------------------------------- ConditionalRenderingExample
ConditionalExampleInit ==
  [ products |-> << [id |-> 1, name |-> "Laptop",     inStock |-> TRUE],
                    [id |-> 2, name |-> "T-shirt",    inStock |-> TRUE],
                    [id |-> 3, name |-> "Headphones", inStock |-> FALSE],
                    [id |-> 4, name |-> "Novel",      inStock |-> TRUE],
                    [id |-> 5, name |-> "Snacks",     inStock |-> TRUE] >>,
    isLoading |-> FALSE,
    error |-> nullStr,
    selectedProductId |-> 0 ]

\* selectedProductId ? products.find(...) || null : null
selectedProduct(c) ==
  LET hits == { i \in 1..Len(c.products) : c.products[i].id = c.selectedProductId }
  IN  IF c.selectedProductId = 0 \/ hits = {} THEN null
      ELSE c.products[CHOOSE i \in hits : \A j \in hits : i <= j]

\* ------------------------------------------------------ ListRenderingExample
ListExampleInit ==
  [ users |-> << [id |-> 1, name |-> "Alice Johnson",  role |-> "Developer", active |-> TRUE],
                 [id |-> 2, name |-> "Bob Smith",      role |-> "Designer",  active |-> TRUE],
                 [id |-> 3, name |-> "Carol Williams", role |-> "Manager",   active |-> FALSE],
                 [id |-> 4, name |-> "Dave Brown",     role |-> "Developer", active |-> TRUE],
                 [id |-> 5, name |-> "Eve Davis",      role |-> "Tester",    active |-> FALSE] >>,
    showInactive |-> TRUE,
    roleFilter |-> "" ]

\* A test that ignores the role filter.
UserPassesIgnoringRole(user, showInactive, roleFilter) ==
  showInactive \/ user.active

\* The test of the filter: (showInactive || user.active) &&
\* (roleFilter === "" || user.role === roleFilter)
UserPasses(user, showInactive, roleFilter) ==
  /\ showInactive \/ user.active
  /\ roleFilter = "" \/ user.role = roleFilter

RECURSIVE Filter(_, _, _)
\* Array.prototype.filter with that test: a left-to-right scan that keeps the
\* elements that pass.
Filter(users, showInactive, roleFilter) ==
  IF users = << >> THEN << >>
  ELSE LET rest == Filter(Tail(users), showInactive, roleFilter)
       IN  IF UserPasses(Head(users), showInactive, roleFilter)
             THEN << Head(users) >> \o rest
             ELSE rest

filteredUsers(l) == Filter(l.users, l.showInactive, l.roleFilter)

\* Array.from(new Set(users.map((user) => user.role)))
uniqueRoles(l) == { l.users[i].role : i \in 1..Len(l.users) }

NoUsersRow == [text |-> "No users found matching the current filters."]

\* The <tbody>: one row per filtered user, or the single "no users" row.
RenderRows(l) ==
  IF Len(filteredUsers(l)) > 0 THEN filteredUsers(l) ELSE << NoUsersRow >>

\* users.map(user => user.id === userId ? {...user, active: !user.active} : user)
ToggledUsers(users, userId) ==
  [ i \in 1..Len(users) |->
      IF users[i].id = userId
        THEN [users[i] EXCEPT !.active = ~users[i].active]
        ELSE users[i] ]

RECURSIVE WithoutUser(_, _)
\* users.filter(user => user.id !== userId)
WithoutUser(users, userId) ==
  IF users = << >> THEN << >>
  ELSE IF Head(users).id # userId
         THEN << Head(users) >> \o WithoutUser(Tail(users), userId)
         ELSE WithoutUser(Tail(users), userId)

\* ------------------------------------------------------- FormHandlingExample
FormDataInit ==
  [ firstName     |-> << >>,
    lastName      |-> << >>,
    email         |-> << >>,
    password      |-> << >>,
    role          |-> "developer",
    notifications |-> TRUE,
    comments      |-> << >> ]

\* errors is an object: a function from the keys it has to their values; a
\* key cleared by handleChange stays, with the value undefined.
NoErrors == [ k \in {} |-> "" ]
undefined == "undefined"

FormExampleInit ==
  [ formData |-> FormDataInit, errors |-> NoErrors, isSubmitted |-> FALSE ]

\* The values the inputs of the form are given.
FirstNames == { << >>, <<" ">>, <<"A", "l">> }
LastNames  == { << >>, <<" ", "L", "i", "\t">> }
Emails     == { << >>, <<"a", "@", "b">>, <<"a", "@", "b", ".", "c">>,
                <<"a", " ", "@", "b", ".", "c">> }
Passwords  == { << >>, <<"1", "2", "3", "4", "5">>, <<"1", "2", "3", "4", "5", "6">> }
FormRoles  == { "developer", "tester" }
Comments   == { << >>, <<"o", "k">> }

\* The values handleChange can receive for the input called name.
FormInputs(name) ==
  CASE name = "firstName"     -> FirstNames
    [] name = "lastName"      -> LastNames
    [] name = "email"         -> Emails
    [] name = "password"      -> Passwords
    [] name = "role"          -> FormRoles
    [] name = "notifications" -> BOOLEAN
    [] name = "comments"      -> Comments

FormFields == { "firstName", "lastName", "email", "password", "role",
                "notifications", "comments" }

\* errors[name] as a condition: a missing key and undefined are falsy.
HasError(errors, name) ==
  name \in DOMAIN errors /\ errors[name] # undefined

\* { ...errors, [name]: value }
WithKey(errors, name, value) ==
  [ k \in (DOMAIN errors) \cup {name} |-> IF k = name THEN value ELSE errors[k] ]

\* /^[^\s@]+@[^\s@]+\.[^\s@]+$/ run as an automaton over the characters: the
\* set of positions of the pattern the text read so far can be at.
EmailChar(c) == c \notin Whitespace /\ c # "@"

EmailStep(at, c) ==
  (IF EmailChar(c) /\ at \cap {"start", "local"} # {} THEN {"local"} ELSE {})
  \cup (IF c = "@" /\ "local" \in at THEN {"at"} ELSE {})
  \cup (IF EmailChar(c) /\ at \cap {"at", "domain"} # {} THEN {"domain"} ELSE {})
  \cup (IF c = "." /\ "domain" \in at THEN {"dot"} ELSE {})
  \cup (IF EmailChar(c) /\ at \cap {"dot", "tld"} # {} THEN {"tld"} ELSE {})

RECURSIVE EmailRun(_, _)
EmailRun(at, s) ==
  IF s = << >> THEN at ELSE EmailRun(EmailStep(at, Head(s)), Tail(s))

\* A pattern that asks for no dot after the @.
emailRegexWithoutDot(s) == {"domain", "tld"} \cap EmailRun({"start"}, s) # {}

\* emailRegex.test(email)
emailRegex(s) == "tld" \in EmailRun({"start"}, s)

\* validateForm: the errors it builds (newErrors).
newErrors(formData) ==
  LET e1 == IF ~Truthy(Trim(formData.firstName))
              THEN WithKey(NoErrors, "firstName", "First name is required")
              ELSE NoErrors
      e2 == IF ~Truthy(Trim(formData.lastName))
              THEN WithKey(e1, "lastName", "Last name is required")
              ELSE e1
      e3 == IF ~Truthy(Trim(formData.email)) \/ ~emailRegex(formData.email)
              THEN WithKey(e2, "email", "Valid email is required")
              ELSE e2
      e4 == IF Len(formData.password) < 6
              THEN WithKey(e3, "password", "Password must be at least 6 characters")
              ELSE e3
  IN  e4

\* validateForm's result: Object.keys(newErrors).length === 0
validateForm(formData) == DOMAIN newErrors(formData) = {}

\* ------------------------------------------------------------ ContextExample
ContextExampleInit ==
  [ theme |-> "light", user |-> null, username |-> << >>, role |-> "user" ]

\* The values typed into the username input, and the options of the select.
Usernames == { << >>, <<" ">>, <<"b", "o">>, <<" ", "a", "\t">> }
LoginRoles == { "user", "admin", "editor" }

\* ----------------------------------------------------- ReactNativeComparison
NativeExampleInit == [showWebVersion |-> TRUE]

\* The record of the handler or callback that ran last: its name; log, what
\* the passive effects it scheduled wrote to the console; and discarded, set
\* by a navigation: the example whose changed hooks were discarded last by
\* the navigations that followed each other; and fetch, set by the completion
\* of a fetchUser call: that call.
Did(name) == [name |-> name, log |-> {}, discarded |-> "none", fetch |-> << >>]

\* -------------------------------------------------------------------- Init
Init ==
  /\ currentExampleIndex = 0
  /\ CurrentExample = ComponentAt(0)
  /\ stateExample = StateExampleInit
  /\ eventExample = EventExampleInit
  /\ effectsExample = EffectsExampleInit
  /\ conditionalExample = ConditionalExampleInit
  /\ listExample = ListExampleInit
  /\ tbody = << >>
  /\ formExample = FormExampleInit
  /\ contextExample = ContextExampleInit
  /\ nativeExample = NativeExampleInit
  /\ timerId = 0
  /\ activeIntervals = {}
  /\ pendingFetches = << >>
  /\ passive = {}
  /\ lastAction = Did("init")

Idle == passive = {}
Shown(c) == Idle /\ CurrentExample = c

\* Whether the hooks of component c differ from their initial values.
Changed(c) ==
  CASE c = "StateExample"                -> stateExample # StateExampleInit
    [] c = "EventHandlingExample"        -> eventExample # EventExampleInit
    [] c = "EffectsExample"              -> effectsExample # EffectsExampleInit
    [] c = "ConditionalRenderingExample" -> conditionalExample # ConditionalExampleInit
    [] c = "ListRenderingExample"        -> listExample # ListExampleInit
    [] c = "FormHandlingExample"         -> formExample # FormExampleInit
    [] c = "ContextExample"              -> contextExample # ContextExampleInit
    [] c = "ReactNativeComparison"       -> nativeExample # NativeExampleInit
    [] OTHER                             -> FALSE

\* ------------------------------------------------- TutorialContainer actions
\* A shell that kept the hooks of a panel across a change of component type.
RenderExampleKeepingHooks(prev, next, hooks, initial) == hooks

\* <CurrentExample />: React keeps the hooks of the panel while the component
\* type at that position stays the same and creates them anew from the
\* useState initialisers when the type changes.
RenderExample(prev, next, hooks, initial) ==
  IF prev = next THEN hooks ELSE initial

\* A shell whose unmounted EffectsExample runs no cleanup.
NavigationEffectsWithoutCleanup(prev, next) ==
  IF prev # next /\ next = "EffectsExample" THEN {"mount"} ELSE {}

\* The passive effects a commit that replaces prev by next schedules: the
\* cleanups of an unmounted EffectsExample, the effects of a mounted one.
NavigationEffects(prev, next) ==
  IF prev = next THEN {}
  ELSE (IF prev = "EffectsExample" THEN {"unmount"} ELSE {})
       \cup (IF next = "EffectsExample" THEN {"mount"} ELSE {})

\* React drops the state updates of an unmounted component instance: the
\* fetchUser calls of the instance that leaves the panel still run to their
\* end when their timeouts fire, and write nothing.  They leave the model with
\* their instance.
Unmounted(prev, next, fetches) ==
  IF prev = next THEN fetches ELSE << >>

SetCurrentExampleIndex(index, name) ==
  LET prev == CurrentExample
      next == ComponentAt(index)
  IN  /\ currentExampleIndex' = index
      /\ CurrentExample' = next
      /\ stateExample' = RenderExample(prev, next, stateExample, StateExampleInit)
      /\ eventExample' = RenderExample(prev, next, eventExample, EventExampleInit)
      /\ effectsExample' = RenderExample(prev, next, effectsExample, EffectsExampleInit)
      /\ conditionalExample' =
           RenderExample(prev, next, conditionalExample, ConditionalExampleInit)
      /\ listExample' = RenderExample(prev, next, listExample, ListExampleInit)
      /\ tbody' = IF next = "ListRenderingExample" THEN RenderRows(listExample') ELSE << >>
      /\ formExample' = RenderExample(prev, next, formExample, FormExampleInit)
      /\ contextExample' = RenderExample(prev, next, contextExample, ContextExampleInit)
      /\ nativeExample' = RenderExample(prev, next, nativeExample, NativeExampleInit)
      /\ pendingFetches' = Unmounted(prev, next, pendingFetches)
      /\ passive' = NavigationEffects(prev, next)
      /\ lastAction' = [ Did(name) EXCEPT !.discarded =
                           IF Changed(prev) THEN prev ELSE lastAction.discarded ]
      /\ UNCHANGED << timerId, activeIntervals >>

\* goToNext guarded by the length of the list instead of its last index.
CanGoNextOffByOne(index) == index < Len(examples)

CanGoNext(index) == index < Len(examples) - 1
CanGoPrevious(index) == index > 0

goToNext ==
  /\ Idle
  /\ CanGoNext(currentExampleIndex)
  /\ SetCurrentExampleIndex(currentExampleIndex + 1, "goToNext")

goToPrevious ==
  /\ Idle
  /\ CanGoPrevious(currentExampleIndex)
  /\ SetCurrentExampleIndex(currentExampleIndex - 1, "goToPrevious")

\* The numbered buttons under the panel: setCurrentExampleIndex(index).  The
\* button of the example that is shown sets the state to the value it has,
\* which renders nothing: that click is a step that changes nothing.
JumpTo ==
  /\ Idle
  /\ \E index \in 0..(Len(examples) - 1) :
       /\ index # currentExampleIndex
       /\ SetCurrentExampleIndex(index, "JumpTo")

\* ------------------------------------------------------ StateExample actions
StateFrame == << shell, browser, eventExample, effectsExample, conditionalExample,
                 listExample, tbody, formExample, contextExample, nativeExample >>

\* A Click me that counts every click twice.
StateClickMeByTwo ==
  /\ Shown("StateExample")
  /\ stateExample.count < MaxCount
  /\ stateExample' = [stateExample EXCEPT !.count = stateExample.count + 2]
  /\ lastAction' = Did("StateClickMe")
  /\ UNCHANGED StateFrame

\* Click me: setCount(count + 1), count being the value of the last render.
StateClickMe ==
  /\ Shown("StateExample")
  /\ stateExample.count < MaxCount
  /\ stateExample' = [stateExample EXCEPT !.count = stateExample.count + 1]
  /\ lastAction' = Did("StateClickMe")
  /\ UNCHANGED StateFrame

StateReset ==
  /\ Shown("StateExample")
  /\ stateExample' = [stateExample EXCEPT !.count = 0]
  /\ lastAction' = Did("StateReset")
  /\ UNCHANGED StateFrame

\* ---------------------------------------------------- EffectsExample actions
EffectsFrame == << shell, stateExample, eventExample, conditionalExample,
                   listExample, tbody, formExample, contextExample, nativeExample >>

\* Start / Stop: setIsRunning(!isRunning); the timer effect depends on it.
ToggleRunning ==
  /\ Shown("EffectsExample")
  /\ effectsExample' = [effectsExample EXCEPT !.isRunning = ~effectsExample.isRunning]
  /\ passive' = {"timer"}
  /\ lastAction' = Did("ToggleRunning")
  /\ UNCHANGED << EffectsFrame, timerId, activeIntervals, pendingFetches >>

\* Reset of the timer panel: setCount(0); the button is disabled while running.
TimerReset ==
  /\ Shown("EffectsExample")
  /\ ~effectsExample.isRunning
  /\ effectsExample' = [effectsExample EXCEPT !.count = 0]
  /\ lastAction' = Did("TimerReset")
  /\ UNCHANGED << EffectsFrame, timerId, activeIntervals, pendingFetches, passive >>

\* Increment of the useState panel: setCount((prev) => prev + 1).
EffectsIncrement ==
  /\ Shown("EffectsExample")
  /\ effectsExample.count < MaxTimerCount
  /\ effectsExample' = [effectsExample EXCEPT !.count = effectsExample.count + 1]
  /\ lastAction' = Did("EffectsIncrement")
  /\ UNCHANGED << EffectsFrame, timerId, activeIntervals, pendingFetches, passive >>

\* The interval callback: setCount((prevCount) => prevCount + 1) of the
\* component instance whose effect created the interval.
TimerTick ==
  /\ Idle
  /\ \E id \in activeIntervals :
       /\ IF CurrentExample = "EffectsExample" /\ id = timerId
            THEN /\ effectsExample.count < MaxTimerCount
                 /\ effectsExample' =
                      [effectsExample EXCEPT !.count = effectsExample.count + 1]
            ELSE UNCHANGED effectsExample
  /\ lastAction' = Did("TimerTick")
  /\ UNCHANGED << EffectsFrame, timerId, activeIntervals, pendingFetches, passive >>

\* User buttons whose every click runs the fetch effect again.
SelectUserAlwaysFetching ==
  /\ Shown("EffectsExample")
  /\ Len(pendingFetches) < MaxPending
  /\ \E i \in 1..Len(UserIdButtons) :
       effectsExample' = [effectsExample EXCEPT !.userId = UserIdButtons[i]]
  /\ passive' = {"fetch"}
  /\ lastAction' = Did("SelectUser")
  /\ UNCHANGED << EffectsFrame, timerId, activeIntervals, pendingFetches >>

\* User 1..5: setUserId(id); setting the current value re-renders nothing.
SelectUser ==
  /\ Shown("EffectsExample")
  /\ \E i \in 1..Len(UserIdButtons) :
       LET id == UserIdButtons[i]
       IN  IF id = effectsExample.userId
             THEN UNCHANGED << effectsExample, passive >>
             ELSE /\ Len(pendingFetches) < MaxPending
                  /\ effectsExample' = [effectsExample EXCEPT !.userId = id]
                  /\ passive' = {"fetch"}
  /\ lastAction' = Did("SelectUser")
  /\ UNCHANGED << EffectsFrame, timerId, activeIntervals, pendingFetches >>

\* The oldest setTimeout(resolve, 1000) fires and its fetchUser runs to the end.
FetchComplete ==
  /\ Idle
  /\ pendingFetches # << >>
  /\ effectsExample' = FetchResult(effectsExample, Head(pendingFetches).userId)
  /\ pendingFetches' = Tail(pendingFetches)
  /\ lastAction' = [Did("FetchComplete") EXCEPT !.fetch = << Head(pendingFetches) >>]
  /\ UNCHANGED << EffectsFrame, timerId, activeIntervals, passive >>

\* ThemedButton: toggleTheme.
EffectsToggleTheme ==
  /\ Shown("EffectsExample")
  /\ effectsExample' =
       [effectsExample EXCEPT !.theme = IF @ = "light" THEN "dark" ELSE "light"]
  /\ lastAction' = Did("EffectsToggleTheme")
  /\ UNCHANGED << EffectsFrame, timerId, activeIntervals, pendingFetches, passive >>

DispatchButtons == {"decrement", "increment", "reset"}

\* The -, + and Reset buttons of the useReducer panel.
\* This specification follows the counts 0..MaxReducerCount; counterReducer on
\* every count of a range around zero is SpecReducer's.
Dispatch ==
  /\ Shown("EffectsExample")
  /\ \E type \in DispatchButtons :
       LET next == counterReducer(effectsExample.counterState, [type |-> type])
       IN  /\ next.count \in 0..MaxReducerCount
           /\ effectsExample' = [effectsExample EXCEPT !.counterState = next]
           /\ lastAction' = Did(type)
  /\ UNCHANGED << EffectsFrame, timerId, activeIntervals, pendingFetches, passive >>

\* The passive effects of the last commit: the cleanups of the effects that
\* are replaced ("timer", "fetch") or unmounted, then the bodies of the
\* effects that run (on "mount", both).
FlushPassiveEffects ==
  /\ passive # {}
  /\ LET timerCleaned == passive \cap {"unmount", "timer"} # {}
         timerRuns == passive \cap {"mount", "timer"} # {}
         fetchCleaned == passive \cap {"unmount", "fetch"} # {}
         fetchRuns == passive \cap {"mount", "fetch"} # {}
         cleared == IF timerCleaned
                      THEN TimerCleanup(activeIntervals, timerId)
                      ELSE activeIntervals
         id == IF timerRuns
                 THEN TimerSetup(cleared, effectsExample.isRunning)
                 ELSE 0
         cleaned == IF fetchCleaned
                      THEN FetchCleanup(pendingFetches)
                      ELSE pendingFetches
     IN  /\ timerId' = IF timerCleaned \/ timerRuns THEN id ELSE timerId
         /\ activeIntervals' = IF id # 0 THEN cleared \cup {id} ELSE cleared
         /\ IF fetchRuns
              THEN /\ pendingFetches' = Append(cleaned, NewFetch(effectsExample.userId, cleaned))
                   /\ effectsExample' = FetchStart(effectsExample)
              ELSE /\ pendingFetches' = cleaned
                   /\ UNCHANGED effectsExample
         /\ lastAction' =
              [ lastAction EXCEPT !.log =
                  (IF timerCleaned /\ timerId # 0 THEN {"Cleaning up timer..."} ELSE {})
                  \cup (IF id # 0 THEN {"Starting timer..."} ELSE {})
                  \cup (IF fetchCleaned
                          THEN {"Cleaning up previous fetch request"} ELSE {}) ]
  /\ passive' = {}
  /\ UNCHANGED EffectsFrame

\* ---------------------------------------------- EventHandlingExample actions
EventFrame == << shell, browser, stateExample, effectsExample, conditionalExample,
                 listExample, tbody, formExample, contextExample, nativeExample >>

EventHandleClick ==
  /\ Shown("EventHandlingExample")
  /\ eventExample' = [eventExample EXCEPT !.message = [text |-> "Button was clicked!"]]
  /\ lastAction' = Did("EventHandleClick")
  /\ UNCHANGED EventFrame

EventHandleMouseMove ==
  /\ Shown("EventHandlingExample")
  /\ \E x \in Coordinates, y \in Coordinates :
       eventExample' = [eventExample EXCEPT !.position = [x |-> x, y |-> y]]
  /\ lastAction' = Did("EventHandleMouseMove")
  /\ UNCHANGED EventFrame

EventHandleInputChange ==
  /\ Shown("EventHandlingExample")
  /\ \E name \in {"name", "email"}, value \in EventInputs :
       eventExample' = [eventExample EXCEPT !.formData[name] = value]
  /\ lastAction' = Did("EventHandleInputChange")
  /\ UNCHANGED EventFrame

EventHandleSubmit ==
  /\ Shown("EventHandlingExample")
  /\ eventExample' =
       [eventExample EXCEPT !.message =
          [text  |-> "Form submitted with",
           name  |-> eventExample.formData.name,
           email |-> eventExample.formData.email]]
  /\ lastAction' = Did("EventHandleSubmit")
  /\ UNCHANGED EventFrame

\* --------------------------------------- ConditionalRenderingExample actions
ConditionalFrame == << shell, browser, stateExample, eventExample, effectsExample,
                       listExample, tbody, formExample, contextExample, nativeExample >>

toggleLoading ==
  /\ Shown("ConditionalRenderingExample")
  /\ conditionalExample' =
       [conditionalExample EXCEPT !.error = nullStr,
                                  !.isLoading = ~conditionalExample.isLoading]
  /\ lastAction' = Did("toggleLoading")
  /\ UNCHANGED ConditionalFrame

simulateError ==
  /\ Shown("ConditionalRenderingExample")
  /\ conditionalExample' =
       [conditionalExample EXCEPT !.isLoading = FALSE,
                                  !.error = "An error occurred while fetching data"]
  /\ lastAction' = Did("simulateError")
  /\ UNCHANGED ConditionalFrame

clearAll ==
  /\ Shown("ConditionalRenderingExample")
  /\ conditionalExample' =
       [conditionalExample EXCEPT !.isLoading = FALSE, !.error = nullStr,
                                  !.selectedProductId = 0]
  /\ lastAction' = Did("clearAll")
  /\ UNCHANGED ConditionalFrame

toggleProductStock ==
  /\ Shown("ConditionalRenderingExample")
  /\ \E i \in 1..Len(conditionalExample.products) :
       conditionalExample' =
         [conditionalExample EXCEPT !.products[i].inStock = ~@]
  /\ lastAction' = Did("toggleProductStock")
  /\ UNCHANGED ConditionalFrame

selectProduct ==
  /\ Shown("ConditionalRenderingExample")
  /\ \E i \in 1..Len(conditionalExample.products) :
       conditionalExample' =
         [conditionalExample EXCEPT !.selectedProductId =
                                      conditionalExample.products[i].id]
  /\ lastAction' = Did("selectProduct")
  /\ UNCHANGED ConditionalFrame

\* Back to List of ProductDetails, which is rendered when nothing loads, no
\* error is shown and a product is selected.
onBack ==
  /\ Shown("ConditionalRenderingExample")
  /\ ~conditionalExample.isLoading
  /\ conditionalExample.error = nullStr
  /\ selectedProduct(conditionalExample) # null
  /\ conditionalExample' = [conditionalExample EXCEPT !.selectedProductId = 0]
  /\ lastAction' = Did("onBack")
  /\ UNCHANGED ConditionalFrame

\* ---------------------------------------------- ListRenderingExample actions
ListFrame == << shell, browser, stateExample, eventExample, effectsExample,
                conditionalExample, formExample, contextExample, nativeExample >>

\* Every handler ends in a render of the table from the new hooks.
ListCommit(next, name) ==
  /\ listExample' = next
  /\ tbody' = RenderRows(next)
  /\ lastAction' = Did(name)
  /\ UNCHANGED ListFrame

\* The ids of the users that have a row, and with it the two buttons.
RowIds == { tbody[i].id : i \in { j \in 1..Len(tbody) : tbody[j] # NoUsersRow } }

toggleUserStatus ==
  /\ Shown("ListRenderingExample")
  /\ \E userId \in RowIds :
       ListCommit([listExample EXCEPT !.users = ToggledUsers(listExample.users, userId)],
                  "toggleUserStatus")

deleteUser ==
  /\ Shown("ListRenderingExample")
  /\ \E userId \in RowIds :
       ListCommit([listExample EXCEPT !.users = WithoutUser(listExample.users, userId)],
                  "deleteUser")

SetShowInactive ==
  /\ Shown("ListRenderingExample")
  /\ ListCommit([listExample EXCEPT !.showInactive = ~listExample.showInactive],
                "SetShowInactive")

\* The select offers "All Roles" and the roles of the users there are.
SetRoleFilter ==
  /\ Shown("ListRenderingExample")
  /\ \E role \in {""} \cup uniqueRoles(listExample) :
       ListCommit([listExample EXCEPT !.roleFilter = role], "SetRoleFilter")

\* ----------------------------------------------- FormHandlingExample actions
FormFrame == << shell, browser, stateExample, eventExample, effectsExample,
                conditionalExample, listExample, tbody, contextExample, nativeExample >>

\* handleChange: the field is set, and its error, if it has one, is cleared.
handleChange ==
  /\ Shown("FormHandlingExample")
  /\ ~formExample.isSubmitted
  /\ \E name \in FormFields : \E value \in FormInputs(name) :
       formExample' =
         [formExample EXCEPT
            !.formData = [formExample.formData EXCEPT ![name] = value],
            !.errors = IF HasError(formExample.errors, name)
                         THEN WithKey(formExample.errors, name, undefined)
                         ELSE formExample.errors]
  /\ lastAction' = Did("handleChange")
  /\ UNCHANGED FormFrame

\* handleSubmit: validateForm sets the errors; a valid form is submitted.
FormHandleSubmit ==
  /\ Shown("FormHandlingExample")
  /\ ~formExample.isSubmitted
  /\ formExample' =
       [formExample EXCEPT
          !.errors = newErrors(formExample.formData),
          !.isSubmitted = IF validateForm(formExample.formData) THEN TRUE ELSE @]
  /\ lastAction' = Did("FormHandleSubmit")
  /\ UNCHANGED FormFrame

handleReset ==
  /\ Shown("FormHandlingExample")
  /\ formExample' = FormExampleInit
  /\ lastAction' = Did("handleReset")
  /\ UNCHANGED FormFrame

\* ---------------------------------------------------- ContextExample actions
ContextFrame == << shell, browser, stateExample, eventExample, effectsExample,
                   conditionalExample, listExample, tbody, formExample, nativeExample >>

ContextToggleTheme ==
  /\ Shown("ContextExample")
  /\ contextExample' =
       [contextExample EXCEPT !.theme = IF @ = "light" THEN "dark" ELSE "light"]
  /\ lastAction' = Did("ContextToggleTheme")
  /\ UNCHANGED ContextFrame

SetUsername ==
  /\ Shown("ContextExample")
  /\ \E value \in Usernames :
       contextExample' = [contextExample EXCEPT !.username = value]
  /\ lastAction' = Did("SetUsername")
  /\ UNCHANGED ContextFrame

SetRole ==
  /\ Shown("ContextExample")
  /\ \E value \in LoginRoles :
       contextExample' = [contextExample EXCEPT !.role = value]
  /\ lastAction' = Did("SetRole")
  /\ UNCHANGED ContextFrame

\* UserProvider.login: the user is replaced by a new record; loginTime is the
\* time of the call.
login(c, username, role, now) ==
  [c EXCEPT !.user = [username |-> username, role |-> role, loginTime |-> now]]

\* LoginForm.handleSubmit: login only for a username that is not blank.
LoginHandleSubmit ==
  /\ Shown("ContextExample")
  /\ \E now \in 1..MaxClock :
       contextExample' =
         IF Truthy(Trim(contextExample.username))
           THEN login(contextExample, contextExample.username, contextExample.role, now)
           ELSE contextExample
  /\ lastAction' = Did("LoginHandleSubmit")
  /\ UNCHANGED ContextFrame

\* Log Out of UserProfile, rendered while a user is logged in.
logout ==
  /\ Shown("ContextExample")
  /\ contextExample.user # null
  /\ contextExample' = [contextExample EXCEPT !.user = null]
  /\ lastAction' = Did("logout")
  /\ UNCHANGED ContextFrame

\* --------------------------------------------- ReactNativeComparison actions
toggleVersion ==
  /\ Shown("ReactNativeComparison")
  /\ nativeExample' = [nativeExample EXCEPT !.showWebVersion = ~@]
  /\ lastAction' = Did("toggleVersion")
  /\ UNCHANGED << shell, browser, stateExample, eventExample, effectsExample,
                  conditionalExample, listExample, tbody, formExample, contextExample >>

Next ==
  \/ goToNext
  \/ goToPrevious
  \/ JumpTo
  \/ StateClickMe
  \/ StateReset
  \/ ToggleRunning
  \/ TimerReset
  \/ EffectsIncrement
  \/ TimerTick
  \/ SelectUser
  \/ FetchComplete
  \/ EffectsToggleTheme
  \/ Dispatch
  \/ FlushPassiveEffects
  \/ EventHandleClick
  \/ EventHandleMouseMove
  \/ EventHandleInputChange
  \/ EventHandleSubmit
  \/ toggleLoading
  \/ simulateError
  \/ clearAll
  \/ toggleProductStock
  \/ selectProduct
  \/ onBack
  \/ toggleUserStatus
  \/ deleteUser
  \/ SetShowInactive
  \/ SetRoleFilter
  \/ handleChange
  \/ FormHandleSubmit
  \/ handleReset
  \/ ContextToggleTheme
  \/ SetUsername
  \/ SetRole
  \/ LoginHandleSubmit
  \/ logout
  \/ toggleVersion

Spec == Init /\ [][Next]_vars

\* ------------------------------------------------- counterReducer on its own
\* The reducer applied to every state {count: n} of a bounded range and to
\* every action type, the three of the buttons and one the reducer does not
\* know, in an EffectsExample that has just been mounted.
ReducerActionTypes == DispatchButtons \cup {"unknown"}

InitReducer ==
  /\ currentExampleIndex = 4
  /\ CurrentExample = ComponentAt(4)
  /\ stateExample = StateExampleInit
  /\ eventExample = EventExampleInit
  /\ \E n \in (0 - MaxReducerInput)..MaxReducerInput :
       effectsExample =
         [FetchStart(EffectsExampleInit) EXCEPT !.counterState = [count |-> n]]
  /\ conditionalExample = ConditionalExampleInit
  /\ listExample = ListExampleInit
  /\ tbody = << >>
  /\ formExample = FormExampleInit
  /\ contextExample = ContextExampleInit
  /\ nativeExample = NativeExampleInit
  /\ timerId = 0
  /\ activeIntervals = {}
  /\ pendingFetches = << NewFetch(EffectsExampleInit.userId, << >>) >>
  /\ passive = {}
  /\ lastAction = Did("JumpTo")

ReducerDispatch ==
  /\ Shown("EffectsExample")
  /\ \E type \in ReducerActionTypes :
       LET next == counterReducer(effectsExample.counterState, [type |-> type])
       IN  /\ next.count \in (0 - MaxReducerInput)..MaxReducerInput
           /\ effectsExample' = [effectsExample EXCEPT !.counterState = next]
           /\ lastAction' = Did(type)
  /\ UNCHANGED << EffectsFrame, timerId, activeIntervals, pendingFetches, passive >>

NextReducer == ReducerDispatch

SpecReducer == InitReducer /\ [][NextReducer]_vars

\* ------------------------------------------ the fetches of EffectsExample
\* The shell and the user-ID buttons of EffectsExample alone, with the
\* scheduling the browser gives: a timeout that is due fires, and the passive
\* effects of a commit run.
NextFetch ==
  \/ goToNext
  \/ goToPrevious
  \/ JumpTo
  \/ SelectUser
  \/ FetchComplete
  \/ FlushPassiveEffects

SpecFetch ==
  /\ Init
  /\ [][NextFetch]_vars
  /\ WF_vars(FetchComplete)
  /\ WF_vars(FlushPassiveEffects)

\* ------------------------------------------------------------------- claims
\* A step taken by the handler or callback of that name: the passive effects
\* of the commit before it have run, and it is the one that ran last after it.
Handled(name) == Idle /\ lastAction'.name = name

Components == { examples[i].component : i \in 1..Len(examples) }

\* C1: whenever the shell replaces the panel shown by a different example, the
\* hooks of the example that leaves are discarded: every example, and so the
\* one that is displayed next, has the initial value of each of its state
\* variables when it is displayed, whatever was done to it before.
C1_NavigationDiscardsState ==
  [][ CurrentExample' # CurrentExample => \A c \in Components : ~Changed(c)' ]_vars

\* An example is displayed again after its changed hooks were discarded.
C1_Witness ==
  /\ lastAction.discarded = CurrentExample
  /\ ~Changed(CurrentExample)

\* C2: after any sequence of Next, Previous and jump clicks, currentExampleIndex
\* is an index of the ten-entry examples list, 0..9, and the panel displayed
\* is the component of examples[currentExampleIndex].
C2_IndexInRange ==
  /\ Len(examples) = 10
  /\ currentExampleIndex \in 0..9
  /\ CurrentExample = examples[currentExampleIndex + 1].component

\* Next has been clicked up to the last example, where it is disabled.
C2_Witness ==
  /\ currentExampleIndex = 9
  /\ lastAction.name = "goToNext"
  /\ ~CanGoNext(currentExampleIndex)

\* C3: every click on Click me of StateExample and on Increment of
\* EffectsExample raises the count of its panel by exactly one.
C3_IncrementByOne ==
  [][ /\ Handled("StateClickMe") => stateExample'.count = stateExample.count + 1
      /\ Handled("EffectsIncrement") =>
           effectsExample'.count = effectsExample.count + 1 ]_vars

\* Two clicks on Click me from the initial count have ended at 0 + 2.
C3_Witness ==
  /\ lastAction.name = "StateClickMe"
  /\ stateExample.count = 2

\* C4: for every state {count: n}, counterReducer returns {count: n + 1} for
\* increment, {count: n - 1} for decrement, {count: 0} for reset, and the
\* state unchanged for any other action type.
C4_ReducerCases ==
  [][ LET n == effectsExample.counterState.count
          returned == effectsExample'.counterState
      IN  /\ Handled("increment") => returned = [count |-> n + 1]
          /\ Handled("decrement") => returned = [count |-> n - 1]
          /\ Handled("reset") => returned = [count |-> 0]
          /\ Handled("unknown") => returned = [count |-> n] ]_vars

\* An action of unknown type has been reduced on a count that is not zero.
C4_Witness ==
  /\ lastAction.name = "unknown"
  /\ effectsExample.counterState.count # 0

\* C5: the cleanup of the fetch effect cancels the requests in flight: a
\* fetchUser call whose effect has been cleaned up, because userId changed or
\* the component was unmounted while its timeout was pending, writes none of
\* userData, error and isLoading when the timeout fires.
C5_CleanupCancelsFetch ==
  [][ ( /\ Handled("FetchComplete")
        /\ pendingFetches # << >>
        /\ Head(pendingFetches).cleanedUp )
      => /\ effectsExample'.userData = effectsExample.userData
         /\ effectsExample'.error = effectsExample.error
         /\ effectsExample'.isLoading = effectsExample.isLoading ]_vars

\* C6: in a mounted EffectsExample whose effects have run there is exactly one
\* active interval if isRunning and none otherwise; no sequence of Start and
\* Stop clicks leaves two intervals active, and no tick of the timer changes
\* count while isRunning is false.
C6_IntervalOnlyWhileRunning ==
  /\ [](Cardinality(activeIntervals) <= 1)
  /\ [](Shown("EffectsExample") =>
          Cardinality(activeIntervals) = IF effectsExample.isRunning THEN 1 ELSE 0)
  /\ [][ Handled("TimerTick") /\ effectsExample'.count # effectsExample.count
           => effectsExample.isRunning ]_vars

\* The timer has been stopped and the cleanup of its effect has cleared the
\* interval of the run before.
C6_Witness ==
  /\ Shown("EffectsExample")
  /\ lastAction.name = "ToggleRunning"
  /\ ~effectsExample.isRunning
  /\ "Cleaning up timer..." \in lastAction.log
  /\ activeIntervals = {}

\* C7: when the shell navigates away from an EffectsExample whose timer runs,
\* the cleanup clears the interval: once the effects of the navigation have
\* run no interval is left, so none is carried into a later visit, and no tick
\* occurs while EffectsExample is not displayed.
C7_TimerClearedOnUnmount ==
  /\ [](Idle /\ CurrentExample # "EffectsExample" => activeIntervals = {})
  /\ [][ Handled("TimerTick") => CurrentExample = "EffectsExample" ]_vars

\* The shell has left an EffectsExample whose timer was running, and the
\* cleanup has cleared its interval.
C7_Witness ==
  /\ Idle
  /\ CurrentExample # "EffectsExample"
  /\ "Cleaning up timer..." \in lastAction.log
  /\ activeIntervals = {}

\* C8: a submit of the LoginForm with a username that is empty or all
\* whitespace leaves the user of the context unchanged; with any other
\* username it sets user to a record that carries that username and the role
\* selected, one of user, admin and editor, whoever was logged in before.
C8_LoginNeedsUsername ==
  [][ Handled("LoginHandleSubmit") =>
        LET typed == contextExample.username
            blank == \A i \in 1..Len(typed) : typed[i] \in Whitespace
        IN  IF blank
              THEN contextExample'.user = contextExample.user
              ELSE /\ contextExample'.user # null
                   /\ contextExample'.user.username = typed
                   /\ contextExample'.user.role = contextExample.role
                   /\ contextExample'.user.role \in {"user", "admin", "editor"} ]_vars

\* A user has logged in, and a later submit of a blank username has left that
\* user logged in.
C8_Witness ==
  /\ lastAction.name = "LoginHandleSubmit"
  /\ contextExample.username = <<" ">>
  /\ contextExample.user # null
  /\ contextExample.user.username = <<"b", "o">>

\* C9: the rows of ListRenderingExample are exactly the users u with
\* (showInactive or u.active) and (roleFilter = "" or u.role = roleFilter), in
\* the order they have in users; the single "No users found matching the
\* current filters." row is displayed exactly when there is no such user.
C9_RowsAreFilteredUsers ==
  CurrentExample = "ListRenderingExample" =>
    LET users == listExample.users
        passing == { i \in 1..Len(users) :
                       /\ listExample.showInactive \/ users[i].active
                       /\ listExample.roleFilter = "" \/
                            users[i].role = listExample.roleFilter }
        row(i) == Cardinality({ j \in passing : j <= i })
    IN  IF passing = {}
          THEN tbody = << NoUsersRow >>
          ELSE /\ Len(tbody) = Cardinality(passing)
               /\ \A i \in passing : tbody[row(i)] = users[i]
               /\ \A k \in 1..Len(tbody) : tbody[k] # NoUsersRow

\* The filters leave none of the users there are, and the one row says so.
C9_Witness ==
  /\ CurrentExample = "ListRenderingExample"
  /\ listExample.users # << >>
  /\ listExample.roleFilter # ""
  /\ tbody = << NoUsersRow >>

\* C10: a submit of the form sets isSubmitted exactly when firstName and
\* lastName are not blank, email is not blank and matches the pattern and
\* password has six characters or more; otherwise isSubmitted stays false;
\* formData is unchanged, and errors becomes exactly the messages of the
\* fields that fail, with no entry for a field that passes.
C10_SubmitValidates ==
  [][ Handled("FormHandleSubmit") =>
        LET f == formExample.formData
            NonBlank(s) == \E i \in 1..Len(s) : s[i] \notin Whitespace
            Matches(s) ==
              /\ \A i \in 1..Len(s) : s[i] \notin Whitespace
              /\ \E a \in 1..Len(s) :
                   /\ s[a] = "@"
                   /\ a > 1
                   /\ \A i \in 1..Len(s) : s[i] = "@" => i = a
                   /\ \E d \in (a + 2)..(Len(s) - 1) : s[d] = "."
            message ==
              [ firstName |-> "First name is required",
                lastName  |-> "Last name is required",
                email     |-> "Valid email is required",
                password  |-> "Password must be at least 6 characters" ]
            failing ==
              (IF NonBlank(f.firstName) THEN {} ELSE {"firstName"})
              \cup (IF NonBlank(f.lastName) THEN {} ELSE {"lastName"})
              \cup (IF NonBlank(f.email) /\ Matches(f.email) THEN {} ELSE {"email"})
              \cup (IF Len(f.password) >= 6 THEN {} ELSE {"password"})
        IN  /\ ~formExample.isSubmitted
            /\ formExample'.isSubmitted = (failing = {})
            /\ formExample'.formData = f
            /\ DOMAIN formExample'.errors = failing
            /\ \A k \in failing : formExample'.errors[k] = message[k] ]_vars

\* A submit has failed on the email alone, an address without a dot after
\* the @, while the three other fields pass.
C10_Witness ==
  /\ lastAction.name = "FormHandleSubmit"
  /\ formExample.formData.email = <<"a", "@", "b">>
  /\ DOMAIN formExample.errors = {"email"}
  /\ ~formExample.isSubmitted

\* C11: once every pending fetch of a displayed EffectsExample has completed,
\* the panel shows the result of the userId that is selected: for 1, 2, 4 and
\* 5 the userData with that id, for 3 the error 'User not found', whatever
\* the interleaving of selections and completions before.
C11_ResultMatchesUserId ==
  (Shown("EffectsExample") /\ pendingFetches = << >>) =>
    LET e == effectsExample
    IN  /\ ~e.isLoading
        /\ IF e.userId = 3
             THEN e.error = "User not found"
             ELSE /\ e.error = nullStr
                  /\ e.userData # null
                  /\ e.userData.id = e.userId

\* C12: in EffectsExample error and userData are never both set: in every
\* state, after any selections and completions, error # null implies
\* userData = null.
C12_ErrorExcludesUserData ==
  CurrentExample = "EffectsExample" =>
    (effectsExample.error # nullStr => effectsExample.userData = null)

\* C13: isLoading is true in every state of a displayed EffectsExample in
\* which a fetch has been started and has not completed: the completion of
\* an earlier fetch does not end the 'Loading...' display of a later one.
C13_LoadingWhilePending ==
  (Shown("EffectsExample") /\ pendingFetches # << >>) => effectsExample.isLoading

\* C14: a fetch that no other fetch overlaps, none pending when it starts and
\* none started before it completes, ends with isLoading = false and, for
\* userId 1, 2, 4 and 5, userData the mock record of that id and error = null,
\* for userId 3, error = 'User not found' and userData = null.
C14_LoneFetchResult ==
  [][ ( /\ Handled("FetchComplete")
        /\ pendingFetches # << >>
        /\ ~Head(pendingFetches).overlapped
        /\ ~Head(pendingFetches).cleanedUp )
      => LET uid == Head(pendingFetches).userId
             e == effectsExample'
         IN  /\ uid = effectsExample.userId
             /\ ~e.isLoading
             /\ IF uid \in {1, 2, 4, 5}
                  THEN /\ \E i \in 1..Len(mockUsers) :
                            mockUsers[i].id = uid /\ e.userData = mockUsers[i]
                       /\ e.error = nullStr
                  ELSE /\ uid = 3
                       /\ e.error = "User not found"
                       /\ e.userData = null ]_vars

\* A fetch for user 3 that nothing overlapped has completed with the error.
C14_Witness ==
  /\ lastAction.name = "FetchComplete"
  /\ lastAction.fetch = << [userId |-> 3, cleanedUp |-> FALSE, overlapped |-> FALSE] >>
  /\ effectsExample.error = "User not found"
  /\ ~effectsExample.isLoading

\* C15: every fetch that has started completes and sets isLoading to false:
\* when the timeouts fire, a state with isLoading = true is followed by one
\* with isLoading = false, on the success path and on the error path.
C15_LoadingEnds ==
  effectsExample.isLoading ~> ~effectsExample.isLoading

\* The fetch for user 3 has completed on the error path and has ended the
\* loading it started.
C15_Witness ==
  /\ lastAction.name = "FetchComplete"
  /\ lastAction.fetch # << >>
  /\ lastAction.fetch[1].userId = 3
  /\ pendingFetches = << >>
  /\ ~effectsExample.isLoading

\* C16: a fetch is started only when userId changes.  A click on the button
\* of the selected user starts no fetch and leaves userData, error and
\* isLoading unchanged; a click that changes userId schedules the fetch effect,
\* whose run starts exactly one fetch, for the new userId; the only other
\* start is the one fetch for userId 1 of the mount.
C16_FetchOnlyOnUserIdChange ==
  [][ LET e == effectsExample
          started == Len(pendingFetches') - Len(pendingFetches)
      IN  /\ (Handled("SelectUser") /\ e'.userId = e.userId) =>
               /\ e' = e
               /\ pendingFetches' = pendingFetches
               /\ passive' = {}
          /\ (Handled("SelectUser") /\ e'.userId # e.userId) =>
               /\ passive' = {"fetch"}
               /\ pendingFetches' = pendingFetches
          /\ passive = {"fetch"} =>
               /\ started = 1
               /\ pendingFetches'[Len(pendingFetches')].userId = e.userId
               /\ lastAction.name = "SelectUser"
          /\ started > 0 =>
               \/ passive = {"fetch"}
               \/ /\ "mount" \in passive
                  /\ started = 1
                  /\ pendingFetches'[1].userId = 1 ]_vars

\* The button of the selected user has been clicked after its data were
\* loaded: no effect was scheduled and no fetch is pending.
C16_Witness ==
  /\ Shown("EffectsExample")
  /\ lastAction.name = "SelectUser"
  /\ lastAction.log = {}
  /\ pendingFetches = << >>
  /\ effectsExample.userData # null
  /\ effectsExample.userData.id = effectsExample.userId

====
